---- MODULE Spec2Model ----
(***************************************************************************)
(* A model of foreman-run.py: the single-worker supervisor that watches    *)
(* todo/, drives each task through ralph (prd-N-*.md) or claude            *)
(* (todo-*.md / plan-*.md), keeps .todo_monitor.json for resumption and    *)
(* archives results under done/.                                           *)
(*                                                                         *)
(* One loop iteration of main() is two steps: the "if A / elif B / elif C" *)
(* statement (ATodo*, APrd*, TickB, TickC, TickSkip) and then the "if D"   *)
(* statement (DBusy, DEmpty, DSkipActive, DStartPrd, DStartTodo); pc tells *)
(* which of the two comes next.  Agent processes and SIGINT/SIGTERM run    *)
(* concurrently with the loop.  Nobody but the supervisor changes todo/,   *)
(* done/ or the persisted record.                                          *)
(***************************************************************************)
EXTENDS Integers, Sequences, FiniteSets, TLC

None == "None"

\* ------------------------------------------------------------------ bounds
\* spawns made for one job before the model stops restarting it
MaxSpawns == 3
\* largest value of --max-retries / --max-error-retries drawn in Init
MaxCeil == 2
\* most entries todo/ holds when scan_todo is looked at by itself
MaxEntries == 3
\* seconds the wall clock can advance where it is modelled
MaxClock == 1

\* ------------------------------------------------------------- queue names
\* The names todo/ can hold: PRDs (two of them with the same number), direct
\* claude tasks of one, two and three passes, and a file no pattern matches.
Names == {"prd-3-a.md", "prd-3-c.md", "prd-7-b.md",
          "todo-e.md", "plan-d.p2.md", "todo-f.p3.md", "notes.txt"}

\* PRD_PATTERN = ^prd-(\d+)-.+\.md$ : <<int(group 1)>> of a matching name,
\* <<>> when the name does not match
PRD_PATTERN(name) ==
    CASE name \in {"prd-3-a.md", "prd-3-c.md"} -> <<3>>
      [] name = "prd-7-b.md" -> <<7>>
      [] OTHER -> <<>>

\* TODO_TASK_PATTERN = ^(todo|plan)-.+\.md$
TODO_TASK_PATTERN(name) == name \in {"todo-e.md", "plan-d.p2.md", "todo-f.p3.md"}

\* st_mtime of the entry's target
st_mtime(name) ==
    CASE name = "todo-e.md" -> 5
      [] name \in {"plan-d.p2.md", "todo-f.p3.md"} -> 10
      [] OTHER -> 0

\* extract_passes: the N of a trailing .pN.md, else the default 1
extract_passes(name) ==
    CASE name = "plan-d.p2.md" -> 2
      [] name = "todo-f.p3.md" -> 3
      [] OTHER -> 1

\* --------------------------------------------------------------- variables
VARIABLES
    todo,               \* todo/: name -> "absent" | "symlink" | "file" | "broken"
                        \* (a symlink whose target is gone)
    ralph,              \* .ralph/: [exists, active, prog]
    done,               \* done/: the set of archive records
    state,              \* the dict main() keeps in memory and saves
    disk,               \* .todo_monitor.json: the dict saved last, or one of
                        \* AbsentFile, CorruptFile, NotDictFile
    clock,              \* the wall clock, in seconds, as datetime.now() shows it
    args,               \* [max_retries, max_error_retries]
    pc,                 \* "down" | "loop" (before if-A) | "idle" (before if-D)
    current_proc,       \* None or the spawned process (Popen handle + reader)
    current_prd,        \* None or the active task's name
    current_job_type,   \* None | "prd" | "todo"
    current_pass,
    current_num_passes,
    orphans,            \* agents running with no handle held: "ralph" / "claude"
                        \* left by an interrupted session, "byhand" a ralph
                        \* loop started by hand
    spawns,             \* agents spawned for the job picked up last
    ops,                \* what the last step did, in order
    hist                \* the job picked up last: its handled exits and outcome

vars == <<todo, ralph, done, state, disk, clock, args, pc, current_proc, current_prd,
          current_job_type, current_pass, current_num_passes, orphans,
          spawns, ops, hist>>

\* ----------------------------------------------------------------- helpers
Op(o, a) == [op |-> o, arg |-> a]

Has(s, o) == \E i \in 1..Len(s) : s[i].op = o

HasOp(s, o, a) == \E i \in 1..Len(s) : s[i] = Op(o, a)

\* what parse_progress can return: <<>> (None) or <<done, total>>
Progs == {<<>>, <<0, 0>>, <<0, 1>>, <<1, 1>>}

NoRalph == [exists |-> FALSE, active |-> FALSE, prog |-> <<>>]

\* current_proc when no process handle is held
NoProc == [kind |-> "none"]

\* {'in_progress': None} as main() reads it: every read of another key is a
\* .get() with the default 'prd' or 0
NoState == [in_progress |-> None, job_type |-> "prd",
            retry_count |-> 0, error_retry_count |-> 0]

\* .todo_monitor.json does not exist
AbsentFile == [file |-> "absent"]

\* .todo_monitor.json cannot be read or is not JSON (empty, truncated, not
\* UTF-8)
CorruptFile == [file |-> "corrupt"]

\* .todo_monitor.json is JSON but not an object (null, a list, a number)
NotDictFile == [file |-> "notdict"]

\* load_state without the try/except of lines 93-96
load_state_nocatch(f) == IF f = AbsentFile THEN NoState ELSE f

\* load_state(): the parsed file, {'in_progress': None} when it is absent or
\* json.loads / read_text raises
load_state(f) == IF f \in {AbsentFile, CorruptFile} THEN NoState ELSE f

\* get_ralph_status(): the text of `ralph --status --tasks`, reduced to what
\* main() reads from it; '' when the command fails or times out (ok = FALSE)
get_ralph_status(ok) ==
    IF ok
    THEN [prog |-> IF ralph.exists THEN ralph.prog ELSE <<>>,
          no_active |-> ~(ralph.exists /\ ralph.active)]
    ELSE [prog |-> <<>>, no_active |-> FALSE]

parse_progress(status) == status.prog

is_no_active_loop(status) == status.no_active

\* is_all_complete that takes 0 of 0 for complete
is_all_complete_lenient(status) ==
    LET prog == parse_progress(status)
    IN  IF prog # <<>> THEN prog[1] = prog[2] ELSE FALSE

is_all_complete(status) ==
    LET prog == parse_progress(status)
    IN  IF prog # <<>> THEN prog[2] > 0 /\ prog[1] = prog[2] ELSE FALSE

\* a status read as ops: what is_all_complete makes of it, and whether the
\* command gave nothing (get_ralph_status returned '')
StatusOps(ok, status) ==
    <<Op("status", IF is_all_complete(status) THEN "complete" ELSE "incomplete")>>
    \o (IF ok THEN <<>> ELSE <<Op("unreadable", None)>>)

\* is_ralph_active that never finds a loop
is_ralph_active_never == FALSE

\* is_ralph_active(): the 'active' flag of .ralph/ralph-loop.state.json
is_ralph_active == ralph.exists /\ ralph.active

\* SortByKey that leaves the list as it was appended
SortByKey_unsorted(s) == s

\* list.sort(key=lambda x: x[0]) of a list of (key, path) pairs: the sort is
\* stable, pairs with equal keys keep the order they were appended in
RECURSIVE SortByKey(_)
SortByKey(s) ==
    IF s = <<>> THEN <<>>
    ELSE LET i == CHOOSE k \in 1..Len(s) :
                    /\ \A j \in 1..Len(s) : s[k][1] <= s[j][1]
                    /\ \A j \in 1..(k - 1) : s[j][1] # s[k][1]
         IN  <<s[i]>> \o SortByKey(SubSeq(s, 1, i - 1) \o SubSeq(s, i + 1, Len(s)))

\* TODO_DIR.iterdir(): the entries of todo/ in an order the OS chooses
iterdir(q) ==
    LET present == {n \in Names : q[n] # "absent"}
    IN  {l \in [1..Cardinality(present) -> present] :
            \A i, j \in DOMAIN l : i # j => l[i] # l[j]}

\* the loop of lines 125-133: the (key, path) pairs appended to prds (which =
\* "prd") or to todos (which = "todo"), in the order of the listing
RECURSIVE Collect(_, _, _)
Collect(dir, q, which) ==
    IF dir = <<>> THEN <<>>
    ELSE LET p == Head(dir)
             m == PRD_PATTERN(p)
             hit == IF q[p] = "broken" THEN <<>>
                    ELSE IF m # <<>>
                    THEN (IF which = "prd" THEN <<<<m[1], p>>>> ELSE <<>>)
                    ELSE IF TODO_TASK_PATTERN(p) /\ which = "todo"
                    THEN <<<<st_mtime(p), p>>>>
                    ELSE <<>>
         IN  hit \o Collect(Tail(dir), q, which)

\* scan_todo that returns the todo/plan files ahead of the PRDs
scan_todo_todos_first(dir, q) ==
    LET prds  == SortByKey(Collect(dir, q, "prd"))
        todos == SortByKey(Collect(dir, q, "todo"))
        Tag(s, t) == [i \in 1..Len(s) |-> <<s[i][2], t>>]
    IN  Tag(todos, "todo") \o Tag(prds, "prd")

\* scan_todo() when iterdir() lists dir: PRDs by number, then todo/plan files
\* by mtime, each tagged with its job type
scan_todo(dir, q) ==
    LET prds  == SortByKey(Collect(dir, q, "prd"))
        todos == SortByKey(Collect(dir, q, "todo"))
        Tag(s, t) == [i \in 1..Len(s) |-> <<s[i][2], t>>]
    IN  Tag(prds, "prd") \o Tag(todos, "todo")

\* what a call of scan_todo() can return, over the orders iterdir() can list
\* todo/ in
Scans(q) == {scan_todo(dir, q) : dir \in iterdir(q)}

\* --------------------------------------------------- filesystem operations
\* save_state that writes the counters as 0
save_state_nocount(st) == [st EXCEPT !.retry_count = 0, !.error_retry_count = 0]

\* save_state that writes the record with no active task
save_state_idle(st) == [st EXCEPT !.in_progress = None]

\* save_state(state): the file holds the dict as it is at the call
save_state(st) == st

\* An entry of done/: its name is {stem}-{kind}-{ts} (stale-ralph-{ts} for a
\* backup), status is the note in its status.md
Record(kind, task, now, status) ==
    [kind |-> kind, task |-> task, ts |-> now, status |-> status]

SameName(r, kind, task, now) == r.kind = kind /\ r.task = task /\ r.ts = now

\* done/ after dest is made or written: a new entry when no entry has the
\* name, else the entry of that name written into (shutil.move into an
\* existing directory, mkdir(exist_ok=True) and write_text over status.md)
Put(d, kind, task, now, status) ==
    {r \in d : ~SameName(r, kind, task, now)} \cup {Record(kind, task, now, status)}

\* archive_ralph_state(prd_name): move .ralph/ to done/{stem}-ralph-{ts}/;
\* nothing when .ralph/ is absent.  Gives the new .ralph/, done/ and the ops.
archive_ralph_state(r, d, prd_name, now) ==
    IF ~r.exists
    THEN [ralph |-> r, done |-> d, ops |-> <<>>]
    ELSE [ralph |-> NoRalph,
          done  |-> Put(d, "ralph", prd_name, now, None),
          ops   |-> <<Op("archive", prd_name)>>]

\* archive_todo_result(task_path, success, log_file): done/{stem}-claude-{ts}/
\* with status.md and the moved log
archive_todo_result(d, task, success, now) ==
    [done |-> Put(d, "claude", task, now, IF success THEN "COMPLETE" ELSE "INCOMPLETE"),
     ops  |-> <<Op("archive", task)>>]

\* backup_stale_ralph that leaves a leftover .ralph/ where it is
backup_stale_ralph_keep(r, d, now) == [ralph |-> r, done |-> d, ops |-> <<>>]

\* backup_stale_ralph(): move a leftover .ralph/ to done/stale-ralph-{ts}/
backup_stale_ralph(r, d, now) ==
    IF r.exists
    THEN [ralph |-> NoRalph,
          done  |-> Put(d, "stale", None, now, None),
          ops   |-> <<Op("backup", None)>>]
    ELSE [ralph |-> r, done |-> d, ops |-> <<>>]

\* remove_symlink that leaves a symlink in place too
remove_symlink_keeps(q, p) == [todo |-> q, ops |-> <<Op("keepfile", p)>>]

\* remove_symlink(p): unlink a symlink, leave a regular file in place
remove_symlink(q, p) ==
    IF q[p] \in {"symlink", "broken"}
    THEN [todo |-> [q EXCEPT ![p] = "absent"], ops |-> <<Op("unlink", p)>>]
    ELSE [todo |-> q, ops |-> <<Op("keepfile", p)>>]

\* --------------------------------------------------------- dates and times
\* Time is counted in seconds from 00:00 UTC of the day before the model's
\* first day.  An aware datetime is [w, fold, tz]: w the wall-clock reading
\* (seconds from 00:00 of that same day on the zone's own clock), fold as in
\* PEP 495, tz the zone name.
Day == 86400

\* days the observation times are spread over
MaxDays == 2

\* the instants datetime.now() is called at: every half hour from day 1 on
Instants == {Day + k * 1800 : k \in 0..(48 * MaxDays - 1)}

\* the zone names a notice can carry; the last is not in the tz database
ZoneNames == {"Asia/Taipei", "America/New_York", "Europe/Berlin", "Mars/Phobos"}

\* ZoneInfo(tz_name) over the days of the model: the UTC offset before and
\* after the zone's one transition and the instant of it.  Taipei has none;
\* New York goes from EDT to EST at 02:00 EDT of day 2, Berlin from CET to
\* CEST at 02:00 CET of day 2; an unknown key raises ZoneInfoNotFoundError.
ZoneInfo(tz_name) ==
    CASE tz_name = "Asia/Taipei" ->
           [ok |-> TRUE, before |-> 8 * 3600, after |-> 8 * 3600, at |-> 0]
      [] tz_name = "America/New_York" ->
           [ok |-> TRUE, before |-> -4 * 3600, after |-> -5 * 3600, at |-> 2 * Day + 6 * 3600]
      [] tz_name = "Europe/Berlin" ->
           [ok |-> TRUE, before |-> 3600, after |-> 2 * 3600, at |-> 2 * Day + 3600]
      [] OTHER -> [ok |-> FALSE]

\* dt.utcoffset(): the offset the zone gives the wall-clock reading; a reading
\* that occurs twice (or never) takes the offset before the transition when
\* fold = 0 and the one after it when fold = 1
utcoffset(dt) ==
    LET z  == ZoneInfo(dt.tz)
        lo == z.at + (IF z.before < z.after THEN z.before ELSE z.after)
        hi == z.at + (IF z.before < z.after THEN z.after ELSE z.before)
    IN  IF dt.w < lo THEN z.before
        ELSE IF dt.w >= hi THEN z.after
        ELSE IF dt.fold = 0 THEN z.before ELSE z.after

\* dt.timestamp(): the instant the aware datetime stands for
timestamp(dt) == dt.w - utcoffset(dt)

\* datetime.now(tz) called at the instant u
datetime_now(tz_name, u) ==
    LET z   == ZoneInfo(tz_name)
        off == IF u < z.at THEN z.before ELSE z.after
    IN  [w    |-> u + off,
         fold |-> IF u >= z.at /\ u + off < z.at + z.before THEN 1 ELSE 0,
         tz   |-> tz_name]

\* The (\d{1,2}(?::\d{2})?(?:am|pm)) group of RATE_LIMIT_RE: the digits
\* of the hour, <<>> or <<the two digits after the colon>>, and am/pm
TimeStrs ==
    [hour : 0..13, minute : {<<>>, <<0>>, <<30>>}, ampm : {"am", "pm"}]
    \cup [hour : {1}, minute : {<<75>>}, ampm : {"am", "pm"}]

\* datetime.strptime(time_str, '%I:%M%p' or '%I%p').time() as <<hour, minute>>;
\* <<>> when strptime raises ValueError (%I takes 1..12, %M takes 0..59)
strptime(time_str) ==
    LET h == time_str.hour
        m == IF time_str.minute = <<>> THEN 0 ELSE time_str.minute[1]
    IN  IF h \notin 1..12 \/ m \notin 0..59 THEN <<>>
        ELSE <<(h % 12) + (IF time_str.ampm = "pm" THEN 12 ELSE 0), m>>

\* parse_reset_datetime that rolls forward only a time strictly in the past
parse_reset_datetime_strict(time_str, tz_name, u) ==
    LET t == strptime(time_str)
        now_local == datetime_now(tz_name, u)
        reset == [now_local EXCEPT !.w = (@ \div Day) * Day + t[1] * 3600 + t[2] * 60]
    IN  IF ~ZoneInfo(tz_name).ok \/ t = <<>> THEN <<>>
        ELSE IF reset.w < now_local.w THEN <<[reset EXCEPT !.w = @ + Day]>>
        ELSE <<reset>>

\* parse_reset_datetime(time_str, tz_name) called at the instant u: <<>> for
\* None, else <<reset>>.  replace() sets the reading and keeps fold; <= and
\* + timedelta(days=1) on datetimes of one zone work on the readings.
parse_reset_datetime(time_str, tz_name, u) ==
    LET t == strptime(time_str)
        now_local == datetime_now(tz_name, u)
        reset == [now_local EXCEPT !.w = (@ \div Day) * Day + t[1] * 3600 + t[2] * 60]
    IN  IF ~ZoneInfo(tz_name).ok \/ t = <<>> THEN <<>>
        ELSE IF reset.w <= now_local.w THEN <<[reset EXCEPT !.w = @ + Day]>>
        ELSE <<reset>>

\* lines 689-698: the seconds main() sleeps before it restarts a rate-limited
\* ralph, computed at the instant u; reset_time is <<>> for None.  The
\* difference of two datetimes of one ZoneInfo is the difference of their
\* readings.
wait_secs(reset_time, u) ==
    IF reset_time # <<>>
    THEN LET d == reset_time[1].w - datetime_now(reset_time[1].tz, u).w + 60
         IN  IF d > 0 THEN d ELSE 0
    ELSE 3600

\* ------------------------------------------------------------------ agents
\* What a process printed by the time it exits, as far as a reader can tell:
\* nothing a reader looks for, a line holding COMPLETE_SIGNAL, a rate-limit
\* line whose time and zone parse, a rate-limit line whose zone does not
Lines == {"plain", "marker", "notice", "badnotice"}

\* RATE_LIMIT_RE.search(line)
RATE_LIMIT_RE(line) == line \in {"notice", "badnotice"}

\* line 292, reset_dt = parse_reset_datetime(m.group(1), m.group(2)), as far
\* as main() tells the results apart: a datetime, or None when the time or
\* the zone does not parse
reset_dt(line) == IF line = "notice" THEN "reset" ELSE None

\* _pipe_output(proc, rate_limit_info) on one line of ralph's output
pipe_output(line, rate_limit_info) ==
    IF ~rate_limit_info.detected /\ RATE_LIMIT_RE(line)
    THEN [detected |-> TRUE, reset_time |-> reset_dt(line)]
    ELSE rate_limit_info

\* _pipe_claude_output(proc, output_info, log_file) on one line of claude's
\* output
pipe_claude_output(line, output_info) ==
    IF line = "marker" THEN [complete |-> TRUE] ELSE output_info

\* A spawned process: the Popen handle, what it has printed (out, known once
\* it has exited), whether its reader thread has got through that output
\* (read), and the dict the reader writes to (info: rate_limit_info for
\* ralph, output_info for claude).  Its return code is read only by the
\* handler of its exit (line 627) and is drawn there.
NewProc(kind, task, pass, verify) ==
    [kind |-> kind, task |-> task, pass |-> pass, verify |-> verify, alive |-> TRUE,
     out |-> "plain", read |-> FALSE,
     info |-> IF kind = "ralph" THEN [detected |-> FALSE, reset_time |-> None]
              ELSE [complete |-> FALSE]]

\* start_ralph(prd_path, ...): Popen(['ralph', '--file', ...]) and its reader;
\* ralph creates or reopens .ralph/ and marks its loop active
start_ralph(r, prd_path) ==
    [proc  |-> NewProc("ralph", prd_path, 0, FALSE),
     ralph |-> [exists |-> TRUE, active |-> TRUE, prog |-> r.prog],
     ops   |-> <<Op("spawn", prd_path)>>]

\* start_claude_pass that gives the verify instruction whatever verify is
start_claude_pass_verify(task_path, pass_num, verify) ==
    [proc |-> NewProc("claude", task_path, pass_num, TRUE),
     ops  |-> <<Op("verify", task_path), Op("spawn", task_path)>>]

\* start_claude_pass(task_path, pass_num, log_file, verify=...)
start_claude_pass(task_path, pass_num, verify) ==
    [proc |-> NewProc("claude", task_path, pass_num, verify),
     ops  |-> <<Op(IF verify THEN "verify" ELSE "implement", task_path),
                Op("spawn", task_path)>>]

\* handle_finished_job that removes the entry without archiving .ralph/
handle_finished_job_noarchive(prd, st, success) ==
    LET u == remove_symlink(todo, prd)
        cleared == [st EXCEPT !.in_progress = None]
    IN  IF success
        THEN [ralph |-> ralph, done |-> done, todo |-> u.todo,
              state |-> cleared, disk |-> save_state(cleared),
              ops |-> <<Op("success", prd)>> \o u.ops \o <<Op("save", None)>>]
        ELSE [ralph |-> ralph, done |-> done, todo |-> todo,
              state |-> cleared, disk |-> save_state(cleared),
              ops |-> <<Op("failure", prd), Op("save", None)>>]

\* handle_finished_job that cleans up after a failure as after a success
handle_finished_job_cleanup(prd, st, success) ==
    LET a == archive_ralph_state(ralph, done, prd, clock)
        u == remove_symlink(todo, prd)
        cleared == [st EXCEPT !.in_progress = None]
    IN  [ralph |-> a.ralph, done |-> a.done, todo |-> u.todo,
         state |-> cleared, disk |-> save_state(cleared),
         ops |-> <<Op(IF success THEN "success" ELSE "failure", prd)>>
                 \o a.ops \o u.ops \o <<Op("save", None)>>]

\* handle_finished_job(current_prd, state, success): on success archive
\* .ralph/ and remove the symlink, otherwise leave both; clear in_progress
\* and save the state
handle_finished_job(prd, st, success) ==
    LET a == archive_ralph_state(ralph, done, prd, clock)
        u == remove_symlink(todo, prd)
        cleared == [st EXCEPT !.in_progress = None]
    IN  IF success
        THEN [ralph |-> a.ralph, done |-> a.done, todo |-> u.todo,
              state |-> cleared, disk |-> save_state(cleared),
              ops |-> <<Op("success", prd)>> \o a.ops \o u.ops \o <<Op("save", None)>>]
        ELSE [ralph |-> ralph, done |-> done, todo |-> todo,
              state |-> cleared, disk |-> save_state(cleared),
              ops |-> <<Op("failure", prd), Op("save", None)>>]

\* ----------------------------------------------------------------- history
\* The job picked up (or resumed) last.  kind is "none" before its first
\* handled exit, "err" while every exit so far was nonzero with no rate limit
\* detected, "inc" while every exit was 0 with incomplete status and no rate
\* limit detected, else "mixed" (also once the session was interrupted).
\* fin is its outcome once finalized, giveup whether a retry ceiling ended it.
NewJob(t, k) == [task |-> t, kind |-> k, fin |-> "run", giveup |-> FALSE]

NoHist == NewJob(None, "mixed")

ExitClass(o) ==
    IF Has(o, "ratelimit") THEN "mixed"
    ELSE IF HasOp(o, "exit", "nonzero") THEN "err"
    ELSE IF HasOp(o, "status", "incomplete") THEN "inc"
    ELSE "mixed"

ArgOf(o, name) == o[CHOOSE i \in 1..Len(o) : o[i].op = name].arg

Track(h, o) ==
    LET j0 == IF Has(o, "pickup") THEN NewJob(ArgOf(o, "pickup"), "none")
              ELSE IF Has(o, "resume") THEN NewJob(ArgOf(o, "resume"), "mixed")
              ELSE IF Has(o, "interrupt") THEN NoHist
              ELSE h
        j1 == IF Has(o, "exit")
              THEN [j0 EXCEPT !.kind = IF @ \in {"none", ExitClass(o)}
                                       THEN ExitClass(o) ELSE "mixed"]
              ELSE j0
    IN  IF Has(o, "success")
        THEN [j1 EXCEPT !.task = ArgOf(o, "success"), !.fin = "success"]
        ELSE IF Has(o, "failure")
        THEN [j1 EXCEPT !.task = ArgOf(o, "failure"), !.fin = "failure",
                        !.giveup = Has(o, "giveup")]
        ELSE j1

\* -------------------------------------------------------------------- Init
\* the contents todo/ can have when exactly the names in present are queued,
\* each as one of kinds
Queue(present, kinds) ==
    {[n \in Names |-> IF n \in present THEN k[n] ELSE "absent"] : k \in [present -> kinds]}

\* The supervisor is not running and nothing is persisted or archived.
Down ==
    /\ done = {}
    /\ state = NoState
    /\ disk = NoState
    /\ clock = 0
    /\ pc = "down"
    /\ current_proc = NoProc
    /\ current_prd = None
    /\ current_job_type = None
    /\ current_pass = 0
    /\ current_num_passes = 1
    /\ spawns = 0
    /\ ops = <<>>
    /\ hist = NoHist

\* Two PRDs and a two-pass claude task are queued as symlinks or as regular
\* files, and a ralph loop started by hand may be running already.
Init ==
    /\ todo \in Queue({"prd-3-a.md", "prd-7-b.md", "plan-d.p2.md"}, {"symlink", "file"})
    /\ \E out_of_band \in BOOLEAN :
         IF out_of_band
         THEN ralph = [exists |-> TRUE, active |-> TRUE, prog |-> <<>>] /\ orphans = {"byhand"}
         ELSE ralph = NoRalph /\ orphans = {}
    /\ args \in [max_retries : 0..MaxCeil, max_error_retries : 0..MaxCeil]
    /\ Down

\* main() lines 540-551: the locals before the loop
FreshLocals ==
    /\ current_proc' = NoProc
    /\ current_prd' = None
    /\ current_job_type' = None
    /\ current_pass' = 0
    /\ current_num_passes' = 1

Locals == <<current_proc, current_prd, current_job_type, current_pass, current_num_passes>>

\* ----------------------------------------------------------------- startup
\* main() up to the loop: load_state() and the reconciliation of a job the
\* previous session left in progress
Start ==
    /\ pc = "down"
    /\ "in_progress" \in DOMAIN load_state(disk)
    /\ pc' = "loop"
    /\ UNCHANGED <<args, clock, orphans, current_proc, current_pass, current_num_passes>>
    /\ spawns' = 0
    /\ LET loaded == load_state(disk)
       IN  IF loaded.in_progress = None
           THEN /\ state' = loaded
                /\ UNCHANGED <<todo, ralph, done, disk, current_prd, current_job_type>>
                /\ ops' = <<Op("start", None)>>
           ELSE IF loaded.job_type = "todo"
           THEN /\ state' = [loaded EXCEPT !.in_progress = None]
                /\ disk' = save_state(state')
                /\ UNCHANGED <<todo, ralph, done, current_prd, current_job_type>>
                /\ ops' = <<Op("start", None), Op("save", None)>>
           ELSE \E ok \in BOOLEAN :
                LET prev == loaded.in_progress
                    status == get_ralph_status(ok)
                    pre == <<Op("start", None)>> \o StatusOps(ok, status)
                IN  IF is_all_complete(status) \/ is_no_active_loop(status)
                    THEN LET f == handle_finished_job(prev, loaded, is_all_complete(status))
                         IN  /\ ralph' = f.ralph /\ done' = f.done /\ todo' = f.todo
                             /\ state' = f.state /\ disk' = f.disk
                             /\ ops' = pre \o f.ops
                             /\ UNCHANGED <<current_prd, current_job_type>>
                    ELSE /\ current_prd' = prev
                         /\ current_job_type' = "prd"
                         /\ state' = loaded
                         /\ ops' = pre \o <<Op("resume", prev)>>
                         /\ UNCHANGED <<todo, ralph, done, disk>>
    /\ hist' = Track(hist, ops')

\* main() when load_state() returns something that is not a dict: line 573
\* raises AttributeError and the process ends with a traceback
StartCrash ==
    /\ pc = "down"
    /\ "in_progress" \notin DOMAIN load_state(disk)
    /\ ops' = <<Op("start", None), Op("traceback", None)>>
    /\ UNCHANGED <<todo, ralph, done, state, disk, clock, args, pc, orphans, spawns,
                   hist, Locals>>

\* shutdown_state that drops the active task from the record
shutdown_state_cleared(st, proc, prd) == [st EXCEPT !.in_progress = None]

\* lines 558-563: the dict shutdown() saves
shutdown_state(st, proc, prd) ==
    IF proc # NoProc /\ proc.alive /\ prd # None
    THEN [st EXCEPT !.in_progress = prd]
    ELSE st

\* shutdown(signum, frame): SIGINT / SIGTERM at any point of the loop; the
\* process ends with sys.exit(0) and a spawned agent that is alive stays so
shutdown ==
    /\ pc # "down"
    /\ pc' = "down"
    /\ state' = shutdown_state(state, current_proc, current_prd)
    /\ disk' = save_state(state')
    /\ orphans' = IF current_proc # NoProc /\ current_proc.alive
                  THEN orphans \cup {current_proc.kind}
                  ELSE orphans
    /\ FreshLocals
    /\ spawns' = 0
    /\ ops' = <<Op("interrupt", None), Op("save", None), Op("exit0", None)>>
    /\ hist' = Track(hist, ops')
    /\ UNCHANGED <<todo, ralph, done, args, clock>>

\* ------------------------------------------------- A. spawned process exited
\* line 626: current_proc is not None and current_proc.poll() is not None
Exited == current_proc # NoProc /\ ~current_proc.alive

\* is_verify that makes every pass after the first a verify pass
is_verify_later(pass, num_passes) == pass > 1

\* line 640: the pass now starting is the verify pass
is_verify(pass, num_passes) == pass = num_passes /\ num_passes > 1

\* line 635: current_pass < current_num_passes
more_passes(pass, num_passes) == pass < num_passes

\* line 651: success = complete
todo_success(complete, pass, num_passes) == complete

\* A-todo, lines 635-648: more passes to run
ATodoNextPass ==
    /\ pc = "loop" /\ Exited /\ current_job_type = "todo"
    /\ more_passes(current_pass, current_num_passes)
    /\ LET complete == current_proc.info.complete
           next_pass == current_pass + 1
           c == start_claude_pass(current_prd, next_pass,
                                  is_verify(next_pass, current_num_passes))
       IN  /\ current_pass' = next_pass
           /\ current_proc' = c.proc
           /\ ops' = <<Op("claude_exit", IF complete THEN "complete" ELSE "nomarker")>> \o c.ops
    /\ spawns' = spawns + 1
    /\ pc' = "idle"
    /\ hist' = Track(hist, ops')
    /\ UNCHANGED <<todo, ralph, done, state, disk, args, clock, orphans, current_prd,
                   current_job_type, current_num_passes>>

\* A-todo, lines 650-675: all passes done
ATodoDone ==
    /\ pc = "loop" /\ Exited /\ current_job_type = "todo"
    /\ ~more_passes(current_pass, current_num_passes)
    /\ LET complete == current_proc.info.complete
           success == todo_success(complete, current_pass, current_num_passes)
           a == archive_todo_result(done, current_prd, success, clock)
           u == remove_symlink(todo, current_prd)
       IN  /\ done' = a.done
           /\ todo' = u.todo
           /\ ops' = <<Op("claude_exit", IF complete THEN "complete" ELSE "nomarker"),
                       Op(IF success THEN "success" ELSE "failure", current_prd)>>
                     \o a.ops \o u.ops \o <<Op("save", None)>>
    /\ state' = [state EXCEPT !.in_progress = None]
    /\ disk' = save_state(state')
    /\ FreshLocals
    /\ pc' = "idle"
    /\ hist' = Track(hist, ops')
    /\ UNCHANGED <<ralph, args, clock, orphans, spawns>>

\* PrdExitBranch with the rate limit looked at only for a clean, incomplete exit
PrdExitBranch_late(detected, success, exit_code) ==
    IF ~success /\ exit_code = 0 THEN (IF detected THEN "ratelimit" ELSE "incomplete")
    ELSE IF exit_code # 0 THEN "error"
    ELSE "success"

\* PrdExitBranch that looks at the status before the exit code
PrdExitBranch_status_first(detected, success, exit_code) ==
    IF detected THEN "ratelimit"
    ELSE IF success THEN "success"
    ELSE IF exit_code = 0 THEN "incomplete"
    ELSE "error"

\* A-prd, lines 686-755: which branch handles ralph's exit
PrdExitBranch(detected, success, exit_code) ==
    IF detected THEN "ratelimit"
    ELSE IF ~success /\ exit_code = 0 THEN "incomplete"
    ELSE IF exit_code # 0 THEN "error"
    ELSE "success"

\* retry_allowed without "0 = unlimited"
retry_allowed_strict(retry_count, max_retries) == retry_count <= max_retries

\* retry_allowed with no ceiling at all
retry_allowed_always(retry_count, max_retries) == TRUE

\* line 710: max_retries == 0 or retry_count <= max_retries
retry_allowed(retry_count, max_retries) ==
    max_retries = 0 \/ retry_count <= max_retries

\* error_retry_allowed off by one
error_retry_allowed_short(error_retry_count, max_err) ==
    max_err > 0 /\ error_retry_count < max_err

\* error_retry_allowed with no ceiling once retries are on
error_retry_allowed_nolimit(error_retry_count, max_err) == max_err > 0

\* line 733: max_err > 0 and error_retry_count <= max_err
error_retry_allowed(error_retry_count, max_err) ==
    max_err > 0 /\ error_retry_count <= max_err

\* lines 679-687 as ops: the exit code, the status read at that moment and
\* the rate-limit flag when it is set
PrdExitOps(exit_code, ok, status, rl) ==
    <<Op("exit", IF exit_code = 0 THEN "0" ELSE "nonzero")>>
    \o StatusOps(ok, status)
    \o (IF rl.detected THEN <<Op("ratelimit", rl.reset_time)>> ELSE <<>>)

\* the restart shared by lines 700-705, 717-722 and 738-743; saved tells
\* whether save_state(state) was called before it (lines 712, 735)
Restart(pre, st, saved) ==
    LET r == start_ralph(ralph, current_prd)
    IN  /\ spawns < MaxSpawns
        /\ current_proc' = r.proc
        /\ ralph' = r.ralph
        /\ state' = st
        /\ disk' = IF saved THEN save_state(st) ELSE disk
        /\ spawns' = spawns + 1
        /\ ops' = pre \o r.ops
        /\ UNCHANGED <<todo, done, current_prd>>

\* lines 726-729, 747-750, 752-755: finalize and drop the handle
Finish(pre, success) ==
    LET f == handle_finished_job(current_prd, state, success)
    IN  /\ ralph' = f.ralph /\ done' = f.done /\ todo' = f.todo
        /\ state' = f.state /\ disk' = f.disk
        /\ current_proc' = NoProc
        /\ current_prd' = None
        /\ ops' = pre \o f.ops
        /\ UNCHANGED spawns

APrd(branch) ==
    /\ pc = "loop" /\ Exited /\ current_job_type # "todo"
    /\ pc' = "idle"
    /\ UNCHANGED <<args, clock, orphans, current_job_type, current_pass, current_num_passes>>
    /\ \E exit_code \in {0, 1}, ok \in BOOLEAN :
         LET status == get_ralph_status(ok)
             success == is_all_complete(status)
             rl == current_proc.info
             pre == PrdExitOps(exit_code, ok, status, rl)
         IN  /\ PrdExitBranch(rl.detected, success, exit_code) = branch
             /\ CASE branch = "ratelimit" ->
                       Restart(pre \o <<Op("wait", IF rl.reset_time # None
                                                   THEN "reset+60" ELSE "3600")>>,
                               state, FALSE)
                  [] branch = "incomplete" ->
                       LET retry_count == state.retry_count + 1
                       IN  IF retry_allowed(retry_count, args.max_retries)
                           THEN Restart(pre \o <<Op("save", None)>>,
                                        [state EXCEPT !.retry_count = retry_count], TRUE)
                           ELSE Finish(pre \o <<Op("giveup", "retries")>>, FALSE)
                  [] branch = "error" ->
                       LET error_retry_count == state.error_retry_count + 1
                       IN  IF error_retry_allowed(error_retry_count, args.max_error_retries)
                           THEN Restart(pre \o <<Op("save", None)>>,
                                        [state EXCEPT !.error_retry_count = error_retry_count],
                                        TRUE)
                           ELSE Finish(pre \o <<Op("giveup", "errors")>>, FALSE)
                  [] branch = "success" -> Finish(pre, TRUE)
    /\ hist' = Track(hist, ops')

APrdRateLimit == APrd("ratelimit")

APrdIncomplete == APrd("incomplete")

APrdError == APrd("error")

APrdSuccess == APrd("success")

\* ------------------------------------- B. monitoring a resumed PRD job
\* resumed_done that takes a complete status for the end of the loop
resumed_done_complete(due, status) == due /\ is_all_complete(status)

\* lines 759 and 766: the poll is due and the status reports no active loop
resumed_done(due, status) == due /\ is_no_active_loop(status)

\* lines 758-773; due: (now - last_status_check) >= args.status_interval
TickB ==
    /\ pc = "loop"
    /\ current_prd # None /\ current_proc = NoProc /\ current_job_type = "prd"
    /\ pc' = "idle"
    /\ UNCHANGED <<args, clock, orphans, current_proc, current_pass, current_num_passes, spawns>>
    /\ \E due \in BOOLEAN, ok \in BOOLEAN :
         LET status == get_ralph_status(ok)
             pre == <<Op("poll", None)>> \o StatusOps(ok, status)
         IN  IF resumed_done(due, status)
             THEN LET f == handle_finished_job(current_prd, state, is_all_complete(status))
                  IN  /\ ralph' = f.ralph /\ done' = f.done /\ todo' = f.todo
                      /\ state' = f.state /\ disk' = f.disk
                      /\ current_prd' = None
                      /\ current_job_type' = None
                      /\ ops' = pre \o f.ops
             ELSE /\ ops' = IF due THEN pre ELSE <<>>
                  /\ UNCHANGED <<todo, ralph, done, state, disk, current_prd, current_job_type>>
    /\ hist' = Track(hist, ops')

\* ------------------------------- C. heartbeat while a process is running
\* lines 776-788: logs only
TickC ==
    /\ pc = "loop"
    /\ current_proc # NoProc /\ current_proc.alive
    /\ pc' = "idle"
    /\ ops' = <<Op("heartbeat", None)>>
    /\ hist' = Track(hist, ops')
    /\ UNCHANGED <<todo, ralph, done, state, disk, args, clock, orphans, spawns, Locals>>

\* none of A, B, C applies
TickSkip ==
    /\ pc = "loop"
    /\ current_proc = NoProc
    /\ ~(current_prd # None /\ current_job_type = "prd")
    /\ pc' = "idle"
    /\ ops' = <<>>
    /\ hist' = Track(hist, ops')
    /\ UNCHANGED <<todo, ralph, done, state, disk, args, clock, orphans, spawns, Locals>>

\* ------------------------------------------------ D. idle: scan todo/
\* scan_allowed that forgets a job monitored without a process handle
scan_allowed_noproc(proc, prd) == proc = NoProc

\* line 791: current_proc is None and current_prd is None
scan_allowed(proc, prd) == proc = NoProc /\ prd = None

\* D is skipped: a job is active
DBusy ==
    /\ pc = "idle"
    /\ ~scan_allowed(current_proc, current_prd)
    /\ pc' = "loop"
    /\ ops' = <<>>
    /\ hist' = Track(hist, ops')
    /\ UNCHANGED <<todo, ralph, done, state, disk, args, clock, orphans, spawns, Locals>>

\* the scan finds nothing
DEmpty ==
    /\ pc = "idle"
    /\ scan_allowed(current_proc, current_prd)
    /\ \E found \in Scans(todo) : found = <<>>
    /\ pc' = "loop"
    /\ ops' = <<Op("scan", None)>>
    /\ hist' = Track(hist, ops')
    /\ UNCHANGED <<todo, ralph, done, state, disk, args, clock, orphans, spawns, Locals>>

\* lines 794-799: the head is a PRD and ralph's state file shows an active loop
DSkipActive ==
    /\ pc = "idle"
    /\ scan_allowed(current_proc, current_prd)
    /\ is_ralph_active
    /\ \E found \in Scans(todo) :
         /\ found # <<>> /\ found[1][2] = "prd"
         /\ ops' = <<Op("scan", None), Op("skip", found[1][1])>>
    /\ pc' = "loop"
    /\ hist' = Track(hist, ops')
    /\ UNCHANGED <<todo, ralph, done, state, disk, args, clock, orphans, spawns, Locals>>

\* lines 801-817: start the head PRD
DStartPrd ==
    /\ pc = "idle"
    /\ scan_allowed(current_proc, current_prd)
    /\ ~is_ralph_active
    /\ \E found \in Scans(todo) :
         LET task_path == found[1][1]
             b == backup_stale_ralph(ralph, done, clock)
             r == start_ralph(b.ralph, task_path)
         IN  /\ found # <<>> /\ found[1][2] = "prd"
             /\ done' = b.done
             /\ ralph' = r.ralph
             /\ current_prd' = task_path
             /\ current_job_type' = "prd"
             /\ state' = [in_progress |-> task_path, job_type |-> "prd",
                          retry_count |-> 0, error_retry_count |-> 0]
             /\ disk' = save_state(state')
             /\ current_proc' = r.proc
             /\ ops' = <<Op("scan", None)>> \o b.ops
                       \o <<Op("pickup", task_path), Op("save", None)>> \o r.ops
    /\ spawns' = 1
    /\ pc' = "loop"
    /\ hist' = Track(hist, ops')
    /\ UNCHANGED <<todo, args, clock, orphans, current_pass, current_num_passes>>

\* lines 819-839: start the head todo/plan task at pass 1
DStartTodo ==
    /\ pc = "idle"
    /\ scan_allowed(current_proc, current_prd)
    /\ \E found \in Scans(todo) :
         LET task_path == found[1][1]
             c == start_claude_pass(task_path, 1, FALSE)
         IN  /\ found # <<>> /\ found[1][2] = "todo"
             /\ current_prd' = task_path
             /\ current_job_type' = "todo"
             /\ current_pass' = 1
             /\ current_num_passes' = extract_passes(task_path)
             /\ state' = [state EXCEPT !.in_progress = task_path, !.job_type = "todo"]
             /\ disk' = save_state(state')
             /\ current_proc' = c.proc
             /\ ops' = <<Op("scan", None), Op("pickup", task_path), Op("save", None)>> \o c.ops
    /\ spawns' = 1
    /\ pc' = "loop"
    /\ hist' = Track(hist, ops')
    /\ UNCHANGED <<todo, ralph, done, args, clock, orphans>>

\* ------------------------------------------------------------ environment
EnvFrame == /\ ops' = <<>>
            /\ UNCHANGED <<todo, done, state, disk, args, clock, pc, current_prd,
                           current_job_type, current_pass, current_num_passes, spawns, hist>>

\* what an exiting agent of the kind can have printed, as far as the reader
\* of that kind tells the lines apart
Outputs(kind) ==
    IF kind = "ralph" THEN {"plain", "notice", "badnotice"} ELSE {"plain", "marker", "notice"}

\* the process once its reader thread (_pipe_output for ralph,
\* _pipe_claude_output for claude) has got through what it printed
ReadAll(proc) ==
    [proc EXCEPT !.read = TRUE,
                 !.info = IF proc.kind = "ralph" THEN pipe_output(proc.out, @)
                          ELSE pipe_claude_output(proc.out, @)]

\* the spawned agent exits; ralph leaves its progress behind and its loop is
\* no longer active.  lag tells whether the reader thread is still behind the
\* output when the process is gone.
ExitWith(lag, outs) ==
    /\ current_proc # NoProc /\ current_proc.alive
    /\ \E out \in outs :
         LET gone == [current_proc EXCEPT !.alive = FALSE, !.out = out]
         IN  current_proc' = IF lag THEN gone ELSE ReadAll(gone)
    /\ IF current_proc.kind = "ralph" /\ ralph.exists
       THEN \E p \in Progs : ralph' = [ralph EXCEPT !.active = FALSE, !.prog = p]
       ELSE UNCHANGED ralph
    /\ EnvFrame
    /\ UNCHANGED orphans

Exit(lag) == ExitWith(lag, Outputs(current_proc.kind))

\* the agent exits after its reader has read all it printed
AgentExit == Exit(FALSE)

\* the agent exits having printed nothing a reader looks for
AgentExitPlain == ExitWith(FALSE, {"plain"})

\* the agent exits with output still in the pipe
AgentExitUnread == Exit(TRUE)

\* the reader thread catches up with a process that is gone
Reader ==
    /\ current_proc # NoProc /\ ~current_proc.alive /\ ~current_proc.read
    /\ current_proc' = ReadAll(current_proc)
    /\ EnvFrame
    /\ UNCHANGED <<ralph, orphans>>

\* a ralph left running by an earlier session updates its progress
RalphWork ==
    /\ ralph.exists
    /\ orphans \cap {"ralph", "byhand"} # {}
    /\ \E p \in Progs \ {ralph.prog} : ralph' = [ralph EXCEPT !.prog = p]
    /\ EnvFrame
    /\ UNCHANGED <<current_proc, orphans>>

\* an agent left running by an earlier session exits
OrphanExit ==
    /\ \E o \in orphans :
         /\ orphans' = orphans \ {o}
         /\ ralph' = IF o \in {"ralph", "byhand"} THEN [ralph EXCEPT !.active = FALSE] ELSE ralph
    /\ EnvFrame
    /\ UNCHANGED current_proc

\* -------------------------------------------------------------------- Next
Next ==
    \/ Start
    \/ shutdown
    \/ ATodoNextPass
    \/ ATodoDone
    \/ APrdRateLimit
    \/ APrdIncomplete
    \/ APrdError
    \/ APrdSuccess
    \/ TickB
    \/ TickC
    \/ TickSkip
    \/ DBusy
    \/ DEmpty
    \/ DSkipActive
    \/ DStartPrd
    \/ DStartTodo
    \/ AgentExit
    \/ RalphWork
    \/ OrphanExit

Spec == Init /\ [][Next]_vars

\* ------------------------------------------------ direct claude tasks alone
\* Claude tasks of one, two and three passes are queued and no PRD; the
\* reader thread of a pass can be behind its output when the pass is gone.
InitTodo ==
    /\ todo \in Queue({"todo-e.md", "plan-d.p2.md", "todo-f.p3.md"}, {"symlink", "file"})
    /\ ralph = NoRalph /\ orphans = {}
    /\ args = [max_retries |-> MaxCeil, max_error_retries |-> MaxCeil]
    /\ Down

NextTodo ==
    \/ Start
    \/ shutdown
    \/ ATodoNextPass
    \/ ATodoDone
    \/ TickC
    \/ TickSkip
    \/ DBusy
    \/ DEmpty
    \/ DStartTodo
    \/ AgentExitUnread
    \/ Reader
    \/ OrphanExit

SpecTodo == InitTodo /\ [][NextTodo]_vars

\* ------------------------------------------------------- scan_todo alone
\* todo/ holds at most MaxEntries of the names, each resolvable or a broken
\* symlink, and the supervisor is not running.
InitScan ==
    /\ \E present \in SUBSET Names :
         /\ Cardinality(present) <= MaxEntries
         /\ todo \in Queue(present, {"symlink", "broken"})
    /\ ralph = NoRalph /\ orphans = {}
    /\ args = [max_retries |-> MaxCeil, max_error_retries |-> MaxCeil]
    /\ Down

\* scan_todo() is called with iterdir() listing todo/ in the order dir
ScanDir ==
    /\ \E dir \in iterdir(todo) :
         ops' = <<Op("iterdir", dir), Op("found", scan_todo(dir, todo))>>
    /\ UNCHANGED <<todo, ralph, done, state, disk, clock, args, pc, orphans, spawns,
                   hist, Locals>>

SpecScan == InitScan /\ [][ScanDir]_vars

\* ------------------------------------------------------ with a wall clock
\* One task is queued, a PRD or a two-pass claude task, and the wall clock
\* advances between steps or does not (--poll-interval 0: nothing makes two
\* iterations of the loop fall into different seconds).
InitClock ==
    /\ \E n \in {"prd-3-a.md", "plan-d.p2.md"} : todo \in Queue({n}, {"symlink", "file"})
    /\ ralph = NoRalph /\ orphans = {}
    /\ args \in [max_retries : 0..1, max_error_retries : 0..1]
    /\ Down

\* a second of wall-clock time passes
Tick ==
    /\ clock < MaxClock
    /\ clock' = clock + 1
    /\ ops' = <<>>
    /\ UNCHANGED <<todo, ralph, done, state, disk, args, pc, orphans, spawns, hist, Locals>>

NextClock ==
    \/ Start
    \/ shutdown
    \/ ATodoNextPass
    \/ ATodoDone
    \/ APrdRateLimit
    \/ APrdIncomplete
    \/ APrdError
    \/ APrdSuccess
    \/ TickB
    \/ TickC
    \/ TickSkip
    \/ DBusy
    \/ DEmpty
    \/ DStartPrd
    \/ DStartTodo
    \/ AgentExit
    \/ RalphWork
    \/ OrphanExit
    \/ Tick

SpecClock == InitClock /\ [][NextClock]_vars

\* ----------------------------------------------- parse_reset_datetime alone
\* Nothing is queued and the supervisor is not running.
InitReset ==
    /\ todo = [n \in Names |-> "absent"]
    /\ ralph = NoRalph /\ orphans = {}
    /\ args = [max_retries |-> MaxCeil, max_error_retries |-> MaxCeil]
    /\ Down

\* _pipe_output meets a rate-limit line at the instant u and calls
\* parse_reset_datetime on its two groups
ParseReset ==
    /\ ops = <<>>
    /\ \E time_str \in TimeStrs, tz_name \in ZoneNames, u \in Instants :
         ops' = <<Op("now", u), Op("time_str", time_str), Op("tz_name", tz_name),
                  Op("reset", parse_reset_datetime(time_str, tz_name, u))>>
    /\ UNCHANGED <<todo, ralph, done, state, disk, clock, args, pc, orphans, spawns,
                   hist, Locals>>

\* how long after the notice was read ralph's exit is handled
Delays == {0, 3600, Day + 3600}

\* lines 687-705: the reader met the notice at the instant u, ralph's exit is
\* handled some time later, main() sleeps wait_secs and restarts ralph
RateLimitWait ==
    /\ ops = <<>>
    /\ \E time_str \in TimeStrs, tz_name \in ZoneNames, u \in Instants, d \in Delays :
         LET reset_time == parse_reset_datetime(time_str, tz_name, u)
             secs == wait_secs(reset_time, u + d)
         IN  ops' = <<Op("now", u), Op("time_str", time_str), Op("tz_name", tz_name),
                      Op("reset", reset_time), Op("handled", u + d),
                      Op("sleep", secs), Op("restart", u + d + secs)>>
    /\ UNCHANGED <<todo, ralph, done, state, disk, clock, args, pc, orphans, spawns,
                   hist, Locals>>

NextReset ==
    \/ ParseReset
    \/ RateLimitWait

SpecReset == InitReset /\ [][NextReset]_vars

\* ------------------------------------------- with a record that gets lost
\* One task is queued as a symlink; while the supervisor is down the record
\* can be deleted, truncated by a write that was cut short, or replaced.
InitLoad ==
    /\ \E n \in {"prd-3-a.md", "plan-d.p2.md"} : todo \in Queue({n}, {"symlink"})
    /\ ralph = NoRalph /\ orphans = {}
    /\ args = [max_retries |-> 1, max_error_retries |-> 0]
    /\ Down

\* the record is lost or damaged while no supervisor runs
Damage ==
    /\ pc = "down"
    /\ disk' \in {AbsentFile, CorruptFile, NotDictFile} \ {disk}
    /\ ops' = <<>>
    /\ UNCHANGED <<todo, ralph, done, state, clock, args, pc, orphans, spawns, hist, Locals>>

NextLoad ==
    \/ Start
    \/ StartCrash
    \/ shutdown
    \/ ATodoNextPass
    \/ ATodoDone
    \/ APrdRateLimit
    \/ APrdIncomplete
    \/ APrdError
    \/ APrdSuccess
    \/ TickB
    \/ TickC
    \/ TickSkip
    \/ DBusy
    \/ DEmpty
    \/ DSkipActive
    \/ DStartPrd
    \/ DStartTodo
    \/ AgentExit
    \/ RalphWork
    \/ OrphanExit
    \/ Damage

SpecLoad == InitLoad /\ [][NextLoad]_vars

\* ------------------------------------------- retries with finite ceilings
\* One PRD is queued, both ceilings are positive and small enough for the
\* spawns the model allows a job, and ralph never prints a rate-limit notice.
InitRetry ==
    /\ todo \in Queue({"prd-3-a.md"}, {"symlink", "file"})
    /\ ralph = NoRalph /\ orphans = {}
    /\ args \in {a \in [max_retries : 1..MaxSpawns, max_error_retries : 1..MaxSpawns] :
                    a.max_retries + a.max_error_retries + 1 <= MaxSpawns}
    /\ Down

\* branch A-prd, whichever branch of it
APrdAny == APrdIncomplete \/ APrdError \/ APrdSuccess

NextRetry ==
    \/ Start
    \/ shutdown
    \/ APrdIncomplete
    \/ APrdError
    \/ APrdSuccess
    \/ TickB
    \/ TickC
    \/ TickSkip
    \/ DBusy
    \/ DEmpty
    \/ DStartPrd
    \/ AgentExitPlain
    \/ RalphWork
    \/ OrphanExit

\* The agent always exits; while it is not interrupted the supervisor goes
\* round its loop, so an exit is handled at the next poll of line 626.
SpecRetry ==
    /\ InitRetry
    /\ [][NextRetry]_vars
    /\ WF_vars(AgentExitPlain)
    /\ WF_vars(APrdAny)
    /\ WF_vars(DBusy)
    /\ WF_vars(TickC)

\* -------------------------------------------------- the loop keeps running
\* a poll of branch B that finds the loop ended and finalizes the job
TickBDone == TickB /\ current_prd' = None

\* While it is not interrupted the supervisor goes round its loop (the loop
\* is "while True" with a sleep of poll_interval at its end), and a job
\* monitored without a handle is polled again every status_interval seconds
\* by a status command that answers sooner or later.
SpecResume ==
    /\ InitLoad
    /\ [][NextLoad]_vars
    /\ WF_vars(DBusy)
    /\ SF_vars(TickBDone)

\* ------------------------------------------------------------- properties
\* this step handles the exit of a spawned ralph (branch A-prd)
PrdExitStep == pc = "loop" /\ Exited /\ current_job_type # "todo" /\ pc' = "idle"

\* C1: while the supervisor runs, the task held in memory is the one the
\* persisted record names and a process handle is held only for a held task;
\* scan_todo is consulted only when no process handle and no task are held.
C1_OneActiveTask ==
    /\ [](pc # "down" => /\ state.in_progress = current_prd
                         /\ (current_proc # NoProc => current_prd # None))
    /\ [][Has(ops', "scan") => current_proc = NoProc /\ current_prd = None]_vars

C1_Witness == Has(ops, "scan") /\ current_prd # None /\ current_proc # NoProc

\* C2: the supervisor never spawns an agent while an agent spawned earlier
\* (by this session, or left running by an interrupted one) is alive.
C2_NoOverlap ==
    [][Has(ops', "spawn") => /\ orphans \cap {"ralph", "claude"} = {}
                             /\ ~(current_proc # NoProc /\ current_proc.alive)]_vars

\* C3: a queue entry is removed only by a success finalization of its task,
\* and a failure finalization leaves the entry in place.
C3_RemovedOnlyOnSuccess ==
    [][\A n \in Names :
         /\ (todo[n] # "absent" /\ todo'[n] = "absent") => HasOp(ops', "success", n)
         /\ HasOp(ops', "failure", n) => todo'[n] = todo[n]]_vars

\* C4: when ralph exits with code 0 and the status read then reports all
\* complete, that step finalizes the job as success (record cleared, handle
\* dropped) and spawns nothing, whatever else was observed.
C4_CleanCompleteExitFinalizes ==
    (HasOp(ops, "exit", "0") /\ HasOp(ops, "status", "complete"))
        => /\ Has(ops, "success") /\ ~Has(ops, "spawn")
           /\ state.in_progress = None /\ current_proc = NoProc

\* C5: in a job whose every handled exit was nonzero with no rate limit, with
\* M = --max-error-retries: while it runs each exit so far restarted ralph
\* (at most M restarts), and it is finalized, as failure, exactly when M + 1
\* spawns were made (M = 0: on the first exit).
C5_ErrorCeiling ==
    hist.kind = "err" =>
        /\ hist.fin \in {"run", "failure"}
        /\ hist.fin = "run" =>
              /\ state.error_retry_count \in 1..args.max_error_retries
              /\ spawns = state.error_retry_count + 1
        /\ hist.fin = "failure" =>
              /\ hist.giveup
              /\ spawns = args.max_error_retries + 1

C5_Witness ==
    /\ hist.kind = "err" /\ hist.fin = "failure"
    /\ args.max_error_retries = 2 /\ spawns = 3

\* C6: in a job whose every handled exit was 0 with incomplete status and no
\* rate limit, with N = --max-retries: if N > 0 each exit so far restarted
\* ralph (at most N restarts) and the job is finalized, as failure, exactly
\* when N + 1 spawns were made; if N = 0 every exit restarted ralph and the
\* job is not finalized.
C6_RetryCeiling ==
    hist.kind = "inc" =>
        /\ hist.fin \in {"run", "failure"}
        /\ hist.fin = "run" =>
              /\ state.retry_count >= 1
              /\ args.max_retries > 0 => state.retry_count <= args.max_retries
              /\ spawns = state.retry_count + 1
        /\ hist.fin = "failure" =>
              /\ hist.giveup
              /\ args.max_retries > 0
              /\ spawns = args.max_retries + 1

C6_Witness ==
    /\ hist.kind = "inc" /\ hist.fin = "failure"
    /\ args.max_retries = 2 /\ spawns = 3

\* C7: once a job was finalized as failure because a retry ceiling was
\* reached, the supervisor does not spawn the agent for that task again.
C7_FailureStands ==
    [][(hist.fin = "failure" /\ hist.giveup) => ~HasOp(ops', "spawn", hist.task)]_vars

\* C8: after an iterative job was finalized as failure, the supervisor does
\* not move or archive .ralph/.
C8_WorkingStateKept ==
    [][(hist.fin = "failure" /\ PRD_PATTERN(hist.task) # <<>> /\ ralph.exists)
          => ~(Has(ops', "backup") \/ Has(ops', "archive"))]_vars

C10_RateLimitRestarts ==
    [][(PrdExitStep /\ Has(ops', "ratelimit")) =>
          /\ HasOp(ops', "spawn", current_prd)
          /\ current_prd' = current_prd
          /\ current_proc' # NoProc /\ current_proc'.alive
          /\ state' = state
          /\ ~Has(ops', "failure") /\ ~Has(ops', "success") /\ ~Has(ops', "giveup")]_vars

C10_Witness ==
    /\ HasOp(ops, "exit", "nonzero") /\ Has(ops, "ratelimit") /\ Has(ops, "spawn")
    /\ state.error_retry_count = 0

\* this step is main() from load_state() to the top of the loop
StartStep == pc = "down" /\ pc' = "loop"

\* this step starts with a persisted active PRD task and reads a status that
\* reports all tasks complete
StartComplete ==
    /\ StartStep
    /\ disk.in_progress # None /\ disk.job_type = "prd"
    /\ HasOp(ops', "status", "complete")

\* what reconciliation does then, all but the queue entry
StartFinalizes ==
    LET prev == disk.in_progress
    IN  /\ HasOp(ops', "success", prev)
        /\ HasOp(ops', "archive", prev)
        /\ ~ralph'.exists
        /\ \E r \in done' : r.kind = "ralph" /\ r.task = prev
        /\ disk'.in_progress = None /\ state'.in_progress = None
        /\ ~Has(ops', "scan") /\ ~Has(ops', "spawn")
        /\ current_prd' = None /\ current_proc' = NoProc

Queued == {n \in Names : todo[n] \in {"symlink", "file"}}

\* the tasks that can be the head of a scan by the rule "PRDs by number,
\* then todo/plan files by mtime"
Heads ==
    LET prds  == {n \in Queued : PRD_PATTERN(n) # <<>>}
        todos == {n \in Queued : PRD_PATTERN(n) = <<>> /\ TODO_TASK_PATTERN(n)}
    IN  IF prds # {}
        THEN {n \in prds : \A m \in prds : PRD_PATTERN(n)[1] <= PRD_PATTERN(m)[1]}
        ELSE {n \in todos : \A m \in todos : st_mtime(n) <= st_mtime(m)}

\* this step is an idle tick: branch D with no task and no handle held
IdleTick == pc = "idle" /\ pc' = "loop" /\ current_proc = NoProc /\ current_prd = None

\* C12: on start with a persisted active claude task the record is cleared
\* with no status read, nothing finalized and nothing spawned; an idle tick
\* whose head is a claude task starts it, and a claude task is only ever
\* picked up at pass 1 with the implement instruction.
C12_TodoRestartsAtPassOne ==
    /\ [][(StartStep /\ disk.in_progress # None /\ disk.job_type = "todo") =>
             /\ disk'.in_progress = None /\ state'.in_progress = None
             /\ ~Has(ops', "status") /\ ~Has(ops', "spawn")
             /\ ~Has(ops', "success") /\ ~Has(ops', "failure")
             /\ todo' = todo /\ done' = done
             /\ current_prd' = None /\ current_proc' = NoProc]_vars
    /\ [][(IdleTick /\ \E n \in Heads : TODO_TASK_PATTERN(n)) =>
             \E n \in Heads : HasOp(ops', "pickup", n)]_vars
    /\ [][\A n \in Names : (HasOp(ops', "pickup", n) /\ TODO_TASK_PATTERN(n)) =>
             /\ current_pass' = 1
             /\ current_proc'.task = n /\ current_proc'.pass = 1
             /\ ~current_proc'.verify
             /\ HasOp(ops', "implement", n) /\ ~HasOp(ops', "verify", n)]_vars

\* a pass of the two-pass task was left running by an interrupted session,
\* and the task has been picked up again
C12_Witness ==
    /\ "claude" \in orphans
    /\ HasOp(ops, "pickup", "plan-d.p2.md")
    /\ current_pass = 1 /\ current_proc.alive

\* this step handles the exit of a claude pass (branch A-todo)
TodoExitStep == pc = "loop" /\ Exited /\ current_job_type = "todo" /\ pc' = "idle"

\* the instruction pass n of N is to get
Instruction(n, N) == IF N > 1 /\ n = N THEN "verify" ELSE "implement"

\* C13: a claude job of N passes runs passes 1..N in order: it is picked up
\* at pass 1; the handled exit of pass k < N starts pass k + 1 for the same
\* task whether or not the marker was seen, and finalizes nothing; the exit
\* of pass N starts no pass; the pass number changes in no other way but
\* being reset; the held pass carries verify exactly when it is pass N of
\* N > 1, else implement; a pass is spawned only when the process held
\* before is gone.
C13_PassesInOrder ==
    /\ [](current_job_type = "todo" =>
            /\ current_proc # NoProc /\ current_proc.kind = "claude"
            /\ current_proc.task = current_prd
            /\ current_proc.pass = current_pass
            /\ current_pass \in 1..current_num_passes
            /\ current_num_passes = extract_passes(current_prd)
            /\ current_proc.verify = (Instruction(current_pass, current_num_passes) = "verify"))
    /\ [][(TodoExitStep /\ current_pass < current_num_passes) =>
             /\ current_pass' = current_pass + 1
             /\ current_prd' = current_prd /\ current_job_type' = "todo"
             /\ current_proc'.alive
             /\ ops' = <<Op("claude_exit", IF current_proc.info.complete
                                           THEN "complete" ELSE "nomarker"),
                         Op(Instruction(current_pass + 1, current_num_passes), current_prd),
                         Op("spawn", current_prd)>>]_vars
    /\ [][(TodoExitStep /\ current_pass = current_num_passes) =>
             /\ ~Has(ops', "spawn")
             /\ Has(ops', "success") \/ Has(ops', "failure")]_vars
    /\ [][(current_job_type = "todo" /\ current_pass' # current_pass) =>
             \/ TodoExitStep /\ current_pass' = current_pass + 1
             \/ current_pass' = 0 /\ current_job_type' = None]_vars
    /\ [][(current_job_type # "todo" /\ current_job_type' = "todo") =>
             /\ Has(ops', "pickup") /\ current_pass' = 1]_vars
    /\ [][(Has(ops', "spawn") /\ current_job_type' = "todo") =>
             ~(current_proc # NoProc /\ current_proc.alive)]_vars

\* the last pass of the three-pass task was started, as a verify pass, after
\* a second pass that printed no marker
C13_Witness ==
    /\ current_prd = "todo-f.p3.md" /\ current_pass = 3
    /\ ops = <<Op("claude_exit", "nomarker"), Op("verify", "todo-f.p3.md"),
               Op("spawn", "todo-f.p3.md")>>

\* C14: the handled exit of the last pass of a claude job finalizes it as
\* success exactly when that pass printed the completion marker, and the
\* status note archived then is COMPLETE on success and INCOMPLETE otherwise.
C14_SuccessIffMarker ==
    [][(TodoExitStep /\ current_pass = current_num_passes) =>
          /\ Has(ops', "success") <=> current_proc.out = "marker"
          /\ Has(ops', "failure") <=> current_proc.out # "marker"
          /\ \E r \in done' :
                /\ SameName(r, "claude", current_prd, clock)
                /\ r.status = IF Has(ops', "success") THEN "COMPLETE" ELSE "INCOMPLETE"]_vars

\* a call of scan_todo(): the listing it got and the list it returned
Listed == ArgOf(ops, "iterdir")

Found == ArgOf(ops, "found")

\* the sort key of a returned pair
KeyOf(e) == IF e[2] = "prd" THEN PRD_PATTERN(e[1])[1] ELSE st_mtime(e[1])

\* where the listing has the name
PlaceOf(n) == CHOOSE i \in 1..Len(Listed) : Listed[i] = n

\* the returned list holds each resolvable name that matches a pattern once,
\* tagged with its type, and nothing else; PRDs precede todo/plan files; in
\* each group the keys ascend
ScanSorted ==
    /\ {Found[i][1] : i \in 1..Len(Found)} =
          {n \in Queued : PRD_PATTERN(n) # <<>> \/ TODO_TASK_PATTERN(n)}
    /\ \A i, j \in 1..Len(Found) : i # j => Found[i][1] # Found[j][1]
    /\ \A i \in 1..Len(Found) :
          Found[i][2] = IF PRD_PATTERN(Found[i][1]) # <<>> THEN "prd" ELSE "todo"
    /\ \A i, j \in 1..Len(Found) :
          i < j => /\ ~(Found[i][2] = "todo" /\ Found[j][2] = "prd")
                   /\ Found[i][2] = Found[j][2] => KeyOf(Found[i]) <= KeyOf(Found[j])

\* C15 as stated: scan_todo returns the resolvable PRDs in ascending number,
\* then the resolvable todo/plan files in ascending mtime, nothing else, and
\* the same list whatever the order of the directory listing.
C15_ScanOrderFixed ==
    Has(ops, "found") =>
        /\ ScanSorted
        /\ \A dir \in iterdir(todo) : scan_todo(dir, todo) = Found

\* C15 amended: as above, but the list is the same for every listing order
\* only when no two returned entries of a type have the same key; entries of
\* a type with equal keys come in the order of the listing.
C15_ScanOrderStable ==
    Has(ops, "found") =>
        /\ ScanSorted
        /\ \A i, j \in 1..Len(Found) :
              (i < j /\ Found[i][2] = Found[j][2] /\ KeyOf(Found[i]) = KeyOf(Found[j]))
                  => PlaceOf(Found[i][1]) < PlaceOf(Found[j][1])
        /\ (\A i, j \in 1..Len(Found) :
               (i # j /\ Found[i][2] = Found[j][2]) => KeyOf(Found[i]) # KeyOf(Found[j]))
              => \A dir \in iterdir(todo) : scan_todo(dir, todo) = Found

\* a listing in descending order with a broken symlink in it
C15_Witness ==
    /\ Has(ops, "found")
    /\ Listed = <<"prd-7-b.md", "todo-e.md", "prd-3-a.md">>
    /\ todo["todo-e.md"] = "broken"
    /\ Found = <<<<"prd-3-a.md", "prd">>, <<"prd-7-b.md", "prd">>>>

\* how many times the log of a step has the op
Count(s, o) == Cardinality({i \in 1..Len(s) : s[i].op = o})

\* C16: a task is picked up only in an idle tick, an idle tick picks up and
\* spawns at most one, and the task picked up is a head of the queue as it
\* is then: a PRD of the smallest number queued, or, when no PRD is queued,
\* a todo/plan file of the smallest mtime.
C16_HeadOnly ==
    /\ [][Has(ops', "pickup") => IdleTick]_vars
    /\ [][IdleTick =>
             /\ Count(ops', "pickup") <= 1
             /\ Count(ops', "spawn") = Count(ops', "pickup")
             /\ \A n \in Names :
                   (HasOp(ops', "pickup", n) \/ HasOp(ops', "spawn", n)) =>
                      /\ n \in Heads
                      /\ current_prd' = n /\ current_proc'.task = n
                      /\ current_job_type' = IF PRD_PATTERN(n) # <<>> THEN "prd" ELSE "todo"]_vars

\* the second PRD was picked up with the claude task queued behind it
C16_Witness ==
    /\ HasOp(ops, "pickup", "prd-7-b.md")
    /\ todo["prd-3-a.md"] = "absent"
    /\ todo["plan-d.p2.md"] # "absent"

\* this step is shutdown(): the supervisor was running and is not any more
InterruptStep == pc # "down" /\ pc' = "down"

\* the agents that are alive: the one whose handle is held and those left by
\* interrupted sessions
HeldAlive == current_proc # NoProc /\ current_proc.alive

\* C17: an interrupt at any step of the loop saves a record that names the
\* task held then (None when none is held) with its job type and counters,
\* and exits with code 0, touching nothing in todo/, done/ or .ralph/; an
\* agent alive then is alive afterwards, and no step of the supervisor ends
\* an agent.
C17_InterruptPersists ==
    /\ [][InterruptStep =>
             /\ disk'.in_progress = current_prd
             /\ current_prd # None => disk'.job_type = current_job_type
             /\ disk'.retry_count = state.retry_count
             /\ disk'.error_retry_count = state.error_retry_count
             /\ ops' = <<Op("interrupt", None), Op("save", None), Op("exit0", None)>>
             /\ todo' = todo /\ done' = done /\ ralph' = ralph
             /\ HeldAlive => current_proc.kind \in orphans']_vars
    /\ [][pc' # pc =>
             /\ orphans \subseteq orphans'
             /\ HeldAlive => \/ current_proc' = current_proc
                              \/ current_proc.kind \in orphans']_vars

\* the supervisor was interrupted while the first pass of the claude task ran
C17_Witness ==
    /\ Has(ops, "interrupt") /\ pc = "down"
    /\ disk.in_progress = "plan-d.p2.md" /\ disk.job_type = "todo"
    /\ "claude" \in orphans

\* C18: after every transition the record holds the supervisor's
\* active task, kind, retry_count, error_retry_count and pass index.
C18_RecordHasPass ==
    (pc # "down" /\ current_job_type = "todo")
        => /\ disk.in_progress = current_prd /\ disk.job_type = "todo"
           /\ "pass" \in DOMAIN disk /\ disk.pass = current_pass

\* C18 amended: the record is saved at pickup, at a scheduled retry and at
\* finalization, and the file then equals the dict in memory, whose active
\* task and kind are those held; it has no pass index, and a pass advance
\* and a rate-limit restart write nothing.
C18_RecordFollowsState ==
    /\ [](/\ disk = state
           /\ DOMAIN disk = {"in_progress", "job_type", "retry_count", "error_retry_count"}
           /\ pc # "down" =>
                 /\ disk.in_progress = current_prd
                 /\ current_prd # None => disk.job_type = current_job_type)
    /\ [][state' # state => Has(ops', "save")]_vars
    /\ [][(Has(ops', "pickup") \/ Has(ops', "success") \/ Has(ops', "failure")
            \/ (PrdExitStep /\ Has(ops', "spawn") /\ ~Has(ops', "ratelimit")))
              => Has(ops', "save")]_vars
    /\ [][((TodoExitStep /\ current_pass < current_num_passes)
            \/ (PrdExitStep /\ Has(ops', "ratelimit")))
              => disk' = disk /\ ~Has(ops', "save")]_vars

\* ralph was restarted after an incomplete exit and the record has the count
C18_Witness ==
    /\ HasOp(ops, "status", "incomplete") /\ Has(ops, "save") /\ Has(ops, "spawn")
    /\ disk.retry_count = 1 /\ disk.in_progress = "prd-3-a.md"

\* C19: in direct-prompt mode as in iterative mode, a rate-limit notice in
\* the agent's output, once its reader has read it, sets the run's
\* rate-limit observation.
C19_NoticeSeenInBothModes ==
    (current_proc # NoProc /\ current_proc.read /\ RATE_LIMIT_RE(current_proc.out))
        => "detected" \in DOMAIN current_proc.info /\ current_proc.info.detected

\* the kind of entry an op of the log made in done/
MadeKind(o) ==
    IF o.op = "backup" THEN "stale"
    ELSE IF PRD_PATTERN(o.arg) # <<>> THEN "ralph" ELSE "claude"

\* C20: every entry made in done/ (by a finalization or by a backup of a
\* stale .ralph/) gets a name no entry of done/ has.
C20_FreshNames ==
    [][\A i \in 1..Len(ops') :
          ops'[i].op \in {"archive", "backup"}
              => ~\E r \in done : SameName(r, MadeKind(ops'[i]), ops'[i].arg, clock)]_vars

\* C21: a start that finds the record absent or unparsable reconciles
\* nothing (no status read, no finalization, no resumed monitoring, nothing
\* spawned or moved), holds no task and no handle, leaves the file as it is
\* and enters the loop; it does not end with a traceback.
C21_LostRecordStartsIdle ==
    [][(pc = "down" /\ Has(ops', "start") /\ disk \in {AbsentFile, CorruptFile}) =>
          /\ ops' = <<Op("start", None)>>
          /\ pc' = "loop"
          /\ state' = NoState
          /\ current_prd' = None /\ current_job_type' = None /\ current_proc' = NoProc
          /\ todo' = todo /\ done' = done /\ ralph' = ralph /\ disk' = disk]_vars

\* the record named prd-3-a.md when it was damaged, and ralph still runs
C21_Witness ==
    /\ ops = <<Op("start", None)>> /\ pc = "loop"
    /\ disk = CorruptFile
    /\ "ralph" \in orphans /\ todo["prd-3-a.md"] = "symlink"

\* the wall-clock time of day a valid 12-hour time names, in seconds
TimeOfDay(time_str) ==
    LET h == IF time_str.hour = 12 THEN 0 ELSE time_str.hour
        m == IF time_str.minute = <<>> THEN 0 ELSE time_str.minute[1]
    IN  (IF time_str.ampm = "pm" THEN h + 12 ELSE h) * 3600 + m * 60

\* the last step was a call of parse_reset_datetime with a valid 12-hour time
\* and a zone of the tz database
ParsedValid ==
    /\ Has(ops, "reset")
    /\ ArgOf(ops, "time_str").hour \in 1..12
    /\ ArgOf(ops, "time_str").minute \in {<<>>, <<0>>, <<30>>}
    /\ ZoneInfo(ArgOf(ops, "tz_name")).ok

\* the result is the named time of day, on the day of the observation when
\* that reading is still ahead and on the next day when not, and it is a
\* later instant than the observation
OnNextReading(r, now_local, u, time_str) ==
    /\ r.tz = now_local.tz
    /\ r.w % Day = TimeOfDay(time_str)
    /\ r.w \div Day = (now_local.w \div Day)
                        + (IF TimeOfDay(time_str) > now_local.w % Day THEN 0 ELSE 1)
    /\ timestamp(r) > u

\* C22: for a valid 12-hour time and any observation time, the result is the
\* next occurrence of that wall-clock time (same day when still ahead, next
\* day when at or before), strictly later than the observation and at most
\* 24 hours later.
C22_NextOccurrence ==
    ParsedValid =>
        LET u == ArgOf(ops, "now")
            r == ArgOf(ops, "reset")
        IN  /\ r # <<>>
            /\ OnNextReading(r[1], datetime_now(ArgOf(ops, "tz_name"), u), u,
                              ArgOf(ops, "time_str"))
            /\ timestamp(r[1]) - u <= Day

\* C22 amended: the same, with "at most 24 hours later" on the zone's clock:
\* the instant is at most 24 hours later when the zone's offset does not
\* change in between and at most 25 hours later when it does.
C22_NextWallClock ==
    ParsedValid =>
        LET u == ArgOf(ops, "now")
            now_local == datetime_now(ArgOf(ops, "tz_name"), u)
            r == ArgOf(ops, "reset")
        IN  /\ r # <<>>
            /\ OnNextReading(r[1], now_local, u, ArgOf(ops, "time_str"))
            /\ r[1].w - now_local.w \in 1..Day
            /\ timestamp(r[1]) - u <= Day + 3600
            /\ utcoffset(r[1]) = utcoffset(now_local) => timestamp(r[1]) - u <= Day

\* 1pm (Asia/Taipei) read at 14:00 Taipei time of day 1 gives 13:00 of day 2
C22_Witness ==
    /\ ParsedValid
    /\ ArgOf(ops, "tz_name") = "Asia/Taipei"
    /\ ArgOf(ops, "now") = Day + 6 * 3600
    /\ ArgOf(ops, "time_str") = [hour |-> 1, minute |-> <<>>, ampm |-> "pm"]
    /\ ArgOf(ops, "reset") = <<[w |-> 2 * Day + 13 * 3600, fold |-> 0, tz |-> "Asia/Taipei"]>>

\* the step handles ralph's exit in the error branch: it counts the error
\* and restarts ralph for the same task, or finalizes the job as failure
ErrorHandled ==
    /\ ~Has(ops', "success") /\ ~Has(ops', "wait")
    /\ state'.retry_count = state.retry_count
    /\ \/ /\ HasOp(ops', "spawn", current_prd) /\ ~Has(ops', "failure")
          /\ state'.error_retry_count = state.error_retry_count + 1
          /\ state'.in_progress = current_prd /\ current_prd' = current_prd
       \/ /\ HasOp(ops', "failure", current_prd) /\ ~Has(ops', "spawn")
          /\ HasOp(ops', "giveup", "errors")
          /\ state'.in_progress = None /\ current_prd' = None /\ current_proc' = NoProc

\* C23: every exit of ralph with a nonzero code is handled as an agent error.
C23_EveryNonzeroIsError ==
    [][(PrdExitStep /\ HasOp(ops', "exit", "nonzero")) => ErrorHandled]_vars

\* C23 amended: a nonzero exit with no rate limit detected is handled as an
\* agent error, whatever the status says; a nonzero exit with a rate limit
\* detected is handled by the rate-limit branch, which waits and restarts
\* ralph with both counters as they were.
C23_NonzeroIsErrorUnlessLimited ==
    /\ [][(PrdExitStep /\ HasOp(ops', "exit", "nonzero") /\ ~Has(ops', "ratelimit"))
             => ErrorHandled]_vars
    /\ [][(PrdExitStep /\ HasOp(ops', "exit", "nonzero") /\ Has(ops', "ratelimit")) =>
             /\ Has(ops', "wait") /\ HasOp(ops', "spawn", current_prd)
             /\ state' = state
             /\ ~Has(ops', "success") /\ ~Has(ops', "failure") /\ ~Has(ops', "giveup")]_vars

\* ralph exited nonzero with every task complete and was restarted
C23_Witness ==
    /\ HasOp(ops, "exit", "nonzero") /\ HasOp(ops, "status", "complete")
    /\ ~Has(ops, "ratelimit") /\ Has(ops, "spawn")
    /\ state.error_retry_count = 1

\* this step is branch A: the loop handles the exit of the process it holds
ExitStep == pc = "loop" /\ Exited /\ pc' = "idle"

\* C24: when the loop handles the exit of a process, the reader thread has
\* got through all the process printed, so the flag the handler reads tells
\* whether the marker (claude) or a rate-limit notice (ralph) was in the
\* output.
C24_ReaderDoneAtExit ==
    [][ExitStep =>
          /\ current_proc.read
          /\ current_proc.kind = "claude" =>
                current_proc.info.complete = (current_proc.out = "marker")
          /\ current_proc.kind = "ralph" =>
                current_proc.info.detected = RATE_LIMIT_RE(current_proc.out)]_vars

\* resumed monitoring: a PRD task is held with no process handle
Resumed ==
    pc # "down" /\ current_prd # None /\ current_proc = NoProc /\ current_job_type = "prd"

\* this step is a start that finds a PRD task in the record
StartPersistedPrd ==
    /\ StartStep
    /\ load_state(disk).in_progress # None /\ load_state(disk).job_type = "prd"

C26_StartFinalizesStopped ==
    [][(StartPersistedPrd /\ ~is_ralph_active /\ ~Has(ops', "unreadable")
                          /\ ~is_all_complete(get_ralph_status(TRUE))) =>
          /\ HasOp(ops', "failure", load_state(disk).in_progress)
          /\ ~Has(ops', "success") /\ ~Has(ops', "resume")
          /\ state'.in_progress = None /\ disk' = state'
          /\ todo' = todo /\ ralph' = ralph /\ done' = done
          /\ ~Has(ops', "spawn") /\ ~Has(ops', "scan")
          /\ current_prd' = None /\ current_proc' = NoProc]_vars

\* ralph stopped short while the supervisor was down; the start has given
\* the job up and its entry and .ralph/ are still there
C26_Witness ==
    /\ Has(ops, "start") /\ HasOp(ops, "failure", "prd-3-a.md") /\ pc = "loop"
    /\ todo["prd-3-a.md"] = "symlink" /\ ralph.exists /\ ralph.prog = <<0, 1>>
    /\ disk.in_progress = None

\* C27: a PRD job is finalized as success only in a step that reads a status
\* (at ralph's exit, at a start or in a poll of resumed monitoring), and
\* only when the command answered and the answer parses to done = total
\* with total > 0.
C27_SuccessNeedsProgress ==
    [][\A n \in Names : (HasOp(ops', "success", n) /\ PRD_PATTERN(n) # <<>>) =>
          /\ HasOp(ops', "status", "complete") /\ ~Has(ops', "unreadable")
          /\ Has(ops', "exit") \/ Has(ops', "start") \/ Has(ops', "poll")
          /\ ralph.exists /\ ralph.prog # <<>>
          /\ ralph.prog[2] > 0 /\ ralph.prog[1] = ralph.prog[2]]_vars

\* a poll of resumed monitoring has finalized the job as success
C27_Witness ==
    /\ Has(ops, "poll") /\ HasOp(ops, "success", "prd-3-a.md")
    /\ state.in_progress = None

\* C28: a rate-limited ralph is not restarted before 60 seconds past the
\* reset time when that is known, and not before 3600 seconds have passed
\* since its exit was handled when it is not.
C28_NotBeforeReset ==
    Has(ops, "restart") =>
        LET reset_time == ArgOf(ops, "reset")
        IN  ArgOf(ops, "restart") >= IF reset_time # <<>>
                                     THEN timestamp(reset_time[1]) + 60
                                     ELSE ArgOf(ops, "handled") + 3600

\* C29: an idle tick whose head is a PRD while ralph-loop.state.json shows an
\* active loop logs the skip of a head and starts nothing, neither that
\* task nor one behind it; todo/, .ralph/, done/, the record, the dict and
\* the locals are as they were, so the next idle tick has the same heads.
C29_ActiveLoopSkips ==
    [][(IdleTick /\ ralph.exists /\ ralph.active
                 /\ \E n \in Heads : PRD_PATTERN(n) # <<>>) =>
          /\ \E n \in Heads : ops' = <<Op("scan", None), Op("skip", n)>>
          /\ todo' = todo /\ ralph' = ralph /\ done' = done
          /\ state' = state /\ disk' = disk
          /\ current_proc' = NoProc /\ current_prd' = None
          /\ current_job_type' = current_job_type
          /\ Heads' = Heads]_vars

\* a loop started by hand runs; the head was skipped with a PRD behind it
C29_Witness ==
    /\ HasOp(ops, "skip", "prd-3-a.md")
    /\ todo["prd-7-b.md"] # "absent" /\ todo["plan-d.p2.md"] # "absent"
    /\ "byhand" \in orphans /\ current_proc = NoProc

\* C30: a pickup of a PRD with .ralph/ present moves it to a stale entry of
\* done/ before the spawn, and ralph starts on a fresh .ralph/; with none
\* present nothing is moved.  A backup happens in no other step: a restart
\* after ralph's exit spawns on .ralph/ as ralph left it.
C30_StaleMovedAtFirstSpawn ==
    /\ [][\A n \in Names : (HasOp(ops', "pickup", n) /\ PRD_PATTERN(n) # <<>>) =>
             /\ ralph'.exists /\ ralph'.prog = <<>>
             /\ IF ralph.exists
                THEN /\ \E i, j \in 1..Len(ops') :
                           i < j /\ ops'[i].op = "backup" /\ ops'[j] = Op("spawn", n)
                     /\ \E r \in done' : r.kind = "stale" /\ r.ts = clock
                ELSE ~Has(ops', "backup") /\ done' = done]_vars
    /\ [][Has(ops', "backup") => IdleTick /\ Has(ops', "pickup") /\ ralph.exists]_vars
    /\ [][(PrdExitStep /\ Has(ops', "spawn")) =>
             /\ ~Has(ops', "backup") /\ done' = done
             /\ ralph'.exists = ralph.exists /\ ralph'.prog = ralph.prog]_vars

\* the job failed and left .ralph/ behind; the next pickup has moved it away
C30_Witness ==
    /\ Has(ops, "backup") /\ HasOp(ops, "pickup", "prd-3-a.md")
    /\ \E r \in done : r.kind = "stale"
    /\ ralph.exists /\ ralph.prog = <<>>

\* the order of two ops in a log
Before(o, a, b) == \E i, j \in 1..Len(o) : i < j /\ o[i].op = a /\ o[j].op = b

\* C31: while the supervisor holds a process that is alive, the record
\* names that process's task with the kind of its agent.  A pickup saves
\* the record before it spawns, and the active task leaves the record only
\* in a step that finalizes a job or in a start.
C31_RecordNamesRunningJob ==
    /\ []((pc # "down" /\ current_proc # NoProc /\ current_proc.alive) =>
            /\ disk.in_progress = current_proc.task
            /\ disk.job_type = IF current_proc.kind = "ralph" THEN "prd" ELSE "todo")
    /\ [][Has(ops', "pickup") => Before(ops', "pickup", "save") /\ Before(ops', "save", "spawn")]_vars
    /\ [][(disk.in_progress # None /\ disk'.in_progress = None) =>
             Has(ops', "success") \/ Has(ops', "failure") \/ Has(ops', "start")]_vars

\* the verify pass of the two-pass task runs, started with no save
C31_Witness ==
    /\ current_proc # NoProc /\ current_proc.alive /\ current_proc.pass = 2
    /\ ~Has(ops, "save") /\ Has(ops, "spawn")
    /\ disk.in_progress = "plan-d.p2.md" /\ disk.job_type = "todo"

\* a PRD job is running: the supervisor holds its process
JobRunning == pc # "down" /\ current_proc # NoProc /\ current_job_type = "prd"

\* C32: with N > 0, M > 0, no rate-limit notice and an agent that always
\* exits, a running PRD job has made 1 + retry_count + error_retry_count
\* spawns with retry_count <= N and error_retry_count <= M, hence at most
\* N + M + 1; an exit raises at most one counter and lowers none; and the
\* job is finalized (or the supervisor interrupted).
C32_BoundedSpawns ==
    /\ [](JobRunning =>
            /\ spawns = 1 + state.retry_count + state.error_retry_count
            /\ state.retry_count <= args.max_retries
            /\ state.error_retry_count <= args.max_error_retries
            /\ spawns <= args.max_retries + args.max_error_retries + 1)
    /\ [][PrdExitStep =>
             /\ state'.retry_count >= state.retry_count
             /\ state'.error_retry_count >= state.error_retry_count
             /\ \/ state'.retry_count = state.retry_count
                \/ state'.error_retry_count = state.error_retry_count]_vars
    /\ (JobRunning ~> (pc = "down" \/ current_prd = None))

\* one clean but incomplete exit and one error were retried, the third exit
\* ended the job
C32_Witness ==
    /\ Has(ops, "giveup") /\ Has(ops, "failure") /\ spawns = 3
    /\ state.retry_count = 1 /\ state.error_retry_count = 1
    /\ args = [max_retries |-> 1, max_error_retries |-> 1]

====
